---- MODULE Spec2Model ----
(***************************************************************************)
(* The quota-gated generation pipeline of ai_dressup: the usage ledger of  *)
(* src/app.py (load/save/get_remaining/increment), the four generation     *)
(* modes of src/app.py (basic, fusion, individual, multi_scene) and the    *)
(* retry loop of ImageGenerator.generate in src/image_generator.py.        *)
(***************************************************************************)
EXTENDS Integers, Sequences, FiniteSets, TLC

(***************************************************************************)
(* Bounds of the model.                                                    *)
(***************************************************************************)
\* max_images of the larger access code of the registry
MaxQuota == 2
\* the largest number of garments / portraits uploaded for one batch
MaxItems == 2
\* the clock readings datetime.now() can return are 0..MaxClock
MaxClock == 1
\* direct calls of increment_generated_count in LedgerSpec
MaxIncr == 4
\* the per-item count of API round trips saturates here
ApiCap == 4
\* the longest image_paths argument handed to generate directly
MaxPaths == 3

(***************************************************************************)
(* Program constants.                                                      *)
(***************************************************************************)
\* app.py: max_retries of the retry loop around generator.generate
max_retries == 3
\* image_generator.py: max_retries of the attempt loop inside generate
gen_max_retries == 3
\* image_generator.py: generate wants at least this many image paths
min_image_paths == 2
\* image_generator.py: a decoded payload shorter than this is re-encoded and
\* compared with the text it came from
min_decoded_size == 1000
\* image_generator.py: a file that fails validation is repaired only when it
\* is shorter than this
max_repair_size == 1000

VARIABLES
    \* st.secrets
    config_present,     \* whether st.secrets holds a non-empty experience_codes
    \* st.session_state
    current_code,       \* the validated access code, NoCode when none
    generated_count,    \* st.session_state.generated_count
    results,            \* the four history lists, by mode
    \* usage_stats.json and the wall clock
    usage_file,         \* <<>> when the file is missing, else <<document>>
    clock,              \* the latest reading of datetime.now()
    \* the batch being run by the script (one button press)
    opc,                \* position of the script
    mode,               \* which of the four modes runs
    n_items,            \* number of items of the batch
    item,               \* 1-based index of the current item (i+1 in the code)
    retry_count,        \* retry_count of the while loop
    success,            \* success of the while loop
    success_count,      \* success_count of modes individual / multi_scene
    temp_files,         \* output files in the TemporaryDirectory
    skipped,            \* items reported as not processable at the quota break
    \* one call of ImageGenerator.generate
    gpc,                \* position inside generate
    g_args,             \* its arguments
    attempt,            \* loop variable of "for attempt in range(max_retries)"
    g_result,           \* what the call hands back: "true", "false", "raise"
    \* history variables (observers, never read by the program)
    recorded,           \* per code: increments performed on its ledger record
    fresh,              \* a quota check passed and no generate call was made since
    b_true,             \* generate calls that returned True in this batch
    b_incr,             \* increment_generated_count calls in this batch
    b_fail,             \* a generate call or an item failed in this batch
    item_api,           \* API round trips made for the current item
    waits,              \* time.sleep calls inside the current generate call
    g_contacts,         \* API round trips inside the current generate call
    \* several browser sessions sharing usage_stats.json (ConcSpec)
    s_code,             \* per session: st.session_state.current_code
    s_pc,               \* per session: position of its script
    s_stats,            \* per session: usage_stats, the local of increment_generated_count
    granted,            \* history: per code, generate calls that returned True
    \* one response part handled by generate (DecodeSpec)
    payload,            \* the part's inline data, its media type, the output path
    next_part,          \* the part with inline data that follows it, if any
    out_file,           \* what the handling left at the output path
    \* usage_stats.json while it is being rewritten (TornSpec)
    writers,            \* the sessions that hold the file open for writing
    \* one uploaded picture being normalized by the script (NormalizeSpec)
    image,              \* the picture as Image.open returned it
    normalized          \* the picture saved for generate

vars == << current_code, generated_count, results, usage_file, clock,
           opc, mode, n_items, item, retry_count, success, success_count,
           temp_files, skipped, gpc, g_args, attempt, g_result,
           recorded, fresh, b_true, b_incr, b_fail, item_api, waits,
           g_contacts, config_present,
           s_code, s_pc, s_stats, granted, payload, next_part, out_file,
           writers, image, normalized >>

sessionVars == << current_code, generated_count, results >>
ledgerVars == << usage_file, clock, recorded >>
batchVars == << opc, mode, n_items, item, retry_count, success, success_count,
                temp_files, skipped, fresh, b_true, b_incr, b_fail, item_api >>
genVars == << gpc, g_args, attempt, g_result, waits, g_contacts >>
concVars == << s_code, s_pc, s_stats, granted >>
decodeVars == << payload, next_part, out_file >>
normVars == << image, normalized >>
\* what one session running alone never touches
outsideVars == << concVars, decodeVars, normVars, writers >>
\* what no step of generate touches
genFrame == << config_present, current_code, generated_count, results,
               usage_file, clock, recorded, opc, mode, n_items, item,
               retry_count, success, success_count, skipped, fresh,
               b_true, b_incr, b_fail, outsideVars >>

(***************************************************************************)
(* The access-code registry (st.secrets['experience_codes']) and the code  *)
(* hash.                                                                   *)
(***************************************************************************)
NoCode == ""
None == -1

Codes == {"abc123", "xyz789"}

\* a code a session still holds after it was taken out of the registry
StaleCodes == {"old000"}

\* the registry this model runs with: two codes, quotas MaxQuota and 1
experience_codes ==
    [c \in Codes |-> [name |-> c,
                      max_images |-> IF c = "abc123" THEN MaxQuota ELSE 1]]

\* load_experience_codes: None (here << >>) when st.secrets holds no registry,
\* else the configuration
load_experience_codes ==
    IF config_present THEN << [experience_codes |-> experience_codes] >> ELSE << >>

\* text typed into the code box: the codes, a capitalised one, an unknown one
CodeInputs == Codes \cup {"ABC123", "nocode", ""}

\* str.lower on the inputs of CodeInputs
lower(s) == IF s = "ABC123" THEN "abc123" ELSE s

\* lines 53-70 of validate_experience_code, config being what
\* load_experience_codes returned: <<is_valid, code_info>>
ValidateIn(config, code) ==
    IF config = << >>
    THEN << FALSE, None >>
    ELSE IF lower(code) \in DOMAIN config[1].experience_codes
    THEN << TRUE, config[1].experience_codes[lower(code)] >>
    ELSE << FALSE, None >>

\* validate_experience_code: <<is_valid, code_info>>
validate_experience_code(code) == ValidateIn(load_experience_codes, code)

\* get_code_hash: the first 16 hex digits of sha256, distinct for distinct codes
get_code_hash(code) ==
    CASE code = "abc123" -> "6ca13d52ca70c883"
      [] code = "xyz789" -> "5c4b0f5f3b5f3d7e"
      [] OTHER -> "e3b0c44298fc1c14"

Hashes == { get_code_hash(c) : c \in Codes }

(***************************************************************************)
(* The ledger file.                                                        *)
(***************************************************************************)
default_stats == [usage_stats |-> << >>]

\* load_usage_stats: the document read, or the default one when missing
load_usage_stats(file) == IF file = << >> THEN default_stats ELSE file[1]

\* what load_usage_stats leaves on disk: it creates the file when missing
file_after_load(file) == << load_usage_stats(file) >>

\* save_usage_stats
save_usage_stats(stats) == << stats >>

Max0(x) == IF x > 0 THEN x ELSE 0

\* a mutant of RemainingOf: the difference without the floor at 0
RemainingOf_nofloor(code, file) ==
    IF code = NoCode
    THEN 0
    ELSE IF load_experience_codes = << >>
    THEN 0
    ELSE IF code \notin DOMAIN load_experience_codes[1].experience_codes
    THEN 0
    ELSE LET max_images == load_experience_codes[1].experience_codes[code].max_images
             code_hash == get_code_hash(code)
             stats == load_usage_stats(file).usage_stats
             used_count == IF code_hash \in DOMAIN stats
                           THEN stats[code_hash].total_generated
                           ELSE 0
         IN  max_images - used_count

\* a mutant of RemainingOf: a code missing from the registry is given the
\* quota MaxQuota
RemainingOf_unchecked(code, file) ==
    IF code = NoCode
    THEN 0
    ELSE IF load_experience_codes = << >>
    THEN 0
    ELSE LET max_images ==
                 IF code \in DOMAIN load_experience_codes[1].experience_codes
                 THEN load_experience_codes[1].experience_codes[code].max_images
                 ELSE MaxQuota
             code_hash == get_code_hash(code)
             stats == load_usage_stats(file).usage_stats
             used_count == IF code_hash \in DOMAIN stats
                           THEN stats[code_hash].total_generated
                           ELSE 0
         IN  Max0(max_images - used_count)

\* get_remaining_images, for a session whose current code is `code`
RemainingOf(code, file) ==
    IF code = NoCode
    THEN 0
    ELSE IF load_experience_codes = << >>
    THEN 0
    ELSE IF code \notin DOMAIN load_experience_codes[1].experience_codes
    THEN 0
    ELSE LET max_images == load_experience_codes[1].experience_codes[code].max_images
             code_hash == get_code_hash(code)
             stats == load_usage_stats(file).usage_stats
             used_count == IF code_hash \in DOMAIN stats
                           THEN stats[code_hash].total_generated
                           ELSE 0
         IN  Max0(max_images - used_count)

get_remaining_images == RemainingOf(current_code, usage_file)

\* a mutant of UpdatedStats: first_used is overwritten by every increment
UpdatedStats_resetfirst(stats, code_hash, t1, t2) ==
    LET us == stats.usage_stats
        old == IF code_hash \in DOMAIN us
               THEN us[code_hash]
               ELSE [total_generated |-> 0, last_used |-> None, first_used |-> None]
        new == [total_generated |-> old.total_generated + 1,
                last_used |-> t1,
                first_used |-> t2]
    IN  [usage_stats |-> (code_hash :> new) @@ us]

\* a mutant of UpdatedStats: the counter is raised by 2
UpdatedStats_twice(stats, code_hash, t1, t2) ==
    LET us == stats.usage_stats
        old == IF code_hash \in DOMAIN us
               THEN us[code_hash]
               ELSE [total_generated |-> 0, last_used |-> None, first_used |-> None]
        new == [total_generated |-> old.total_generated + 2,
                last_used |-> t1,
                first_used |-> IF old.first_used = None THEN t2 ELSE old.first_used]
    IN  [usage_stats |-> (code_hash :> new) @@ us]

\* a mutant of UpdatedStats: the document keeps the updated record only
UpdatedStats_alone(stats, code_hash, t1, t2) ==
    LET us == stats.usage_stats
        old == IF code_hash \in DOMAIN us
               THEN us[code_hash]
               ELSE [total_generated |-> 0, last_used |-> None, first_used |-> None]
        new == [total_generated |-> old.total_generated + 1,
                last_used |-> t1,
                first_used |-> IF old.first_used = None THEN t2 ELSE old.first_used]
    IN  [usage_stats |-> (code_hash :> new)]

\* lines 127-141 of increment_generated_count: the document after the update,
\* t1 and t2 being the two readings of datetime.now()
UpdatedStats(stats, code_hash, t1, t2) ==
    LET us == stats.usage_stats
        old == IF code_hash \in DOMAIN us
               THEN us[code_hash]
               ELSE [total_generated |-> 0, last_used |-> None, first_used |-> None]
        new == [total_generated |-> old.total_generated + 1,
                last_used |-> t1,
                first_used |-> IF old.first_used = None THEN t2 ELSE old.first_used]
    IN  [usage_stats |-> (code_hash :> new) @@ us]

\* the readings datetime.now() can give after the reading t
Later(t) == { u \in t..(t + 1) : u <= MaxClock }

\* increment_generated_count
increment_generated_count ==
    IF current_code = NoCode
    THEN UNCHANGED << usage_file, clock, recorded, generated_count >>
    ELSE \E t1 \in Later(clock) : \E t2 \in Later(t1) :
           LET code_hash == get_code_hash(current_code)
               stats == UpdatedStats(load_usage_stats(usage_file), code_hash, t1, t2)
           IN  /\ usage_file' = save_usage_stats(stats)
               /\ clock' = t2
               /\ generated_count' = stats.usage_stats[code_hash].total_generated
               /\ recorded' = [recorded EXCEPT ![current_code] = @ + 1]

(***************************************************************************)
(* ImageGenerator.generate (src/image_generator.py).  One call runs from   *)
(* gpc = "enter" to gpc = "ret"; g_result is what the caller receives.     *)
(***************************************************************************)
NoArgs == [kind |-> "none", n |-> 0, readable |-> TRUE, base |-> 0, ext |-> ""]

\* extensions generate recognises at the end of output_path
PathExts == {".png", ".jpg", ".jpeg", ".webp"}

\* media types the API can declare for the inline image
MimeTypes == {"image/png", "image/jpeg", "image/webp", "image/gif"}

\* lines 227-237: the extension for a declared media type
file_extension(mime_type) ==
    CASE mime_type = "image/png" -> ".png"
      [] mime_type = "image/jpeg" -> ".jpg"
      [] mime_type = "image/webp" -> ".webp"
      [] OTHER -> ".png"

\* lines 239-245: the file generate writes
final_output_path(args, mime_type) ==
    IF args.ext \in PathExts
    THEN [base |-> args.base, ext |-> args.ext]
    ELSE [base |-> args.base, ext |-> file_extension(mime_type)]

\* a mutant of ArgsRejected: a single image path is let through
ArgsRejected_one(args) ==
    \/ args.kind \notin {"list", "tuple"}
    \/ args.n < min_image_paths - 1

\* lines 99-106: the arguments generate turns down before doing anything
ArgsRejected(args) ==
    \/ args.kind \notin {"list", "tuple"}
    \/ args.n < min_image_paths

\* the saturating count of API round trips of the current item
Bumped(k) == IF k < ApiCap THEN k + 1 ELSE k

\* control returns to the caller of generate
GenReturns(r) ==
    /\ gpc' = "ret"
    /\ g_result' = r

\* lines 100-106: image_paths is no list/tuple, or is shorter than 2
GenRejectArgs ==
    /\ gpc = "enter"
    /\ ArgsRejected(g_args)
    /\ GenReturns("false")
    /\ UNCHANGED << g_args, attempt, waits, g_contacts, temp_files, item_api >>
    /\ UNCHANGED genFrame

\* lines 118-123: _read_image_file returns None for some path
GenReadFails ==
    /\ gpc = "enter"
    /\ ~ArgsRejected(g_args)
    /\ ~g_args.readable
    /\ GenReturns("false")
    /\ UNCHANGED << g_args, attempt, waits, g_contacts, temp_files, item_api >>
    /\ UNCHANGED genFrame

\* lines 134-159: building the request (types.Part / types.Content) raises,
\* outside the try of the attempt loop
GenBuildRaises ==
    /\ gpc = "enter"
    /\ ~ArgsRejected(g_args)
    /\ g_args.readable
    /\ GenReturns("raise")
    /\ UNCHANGED << g_args, attempt, waits, g_contacts, temp_files, item_api >>
    /\ UNCHANGED genFrame

\* lines 161-169: the attempt loop is entered
GenBegin ==
    /\ gpc = "enter"
    /\ ~ArgsRejected(g_args)
    /\ g_args.readable
    /\ gpc' = "attempt"
    /\ attempt' = 0
    /\ UNCHANGED << g_args, g_result, waits, g_contacts, temp_files, item_api >>
    /\ UNCHANGED genFrame

\* line 304: an attempt that raised is followed by time.sleep(retry_delay)
BackoffAfterException(a) == a < gen_max_retries - 1

\* the API was contacted once more
Contact ==
    /\ g_contacts' = g_contacts + 1
    /\ item_api' = Bumped(item_api)

\* the loop goes on to the next attempt, or runs out and line 311 returns False
NextAttempt ==
    IF attempt + 1 < gen_max_retries
    THEN /\ attempt' = attempt + 1
         /\ UNCHANGED << gpc, g_result >>
    ELSE /\ attempt' = attempt + 1
         /\ GenReturns("false")

\* a mutant of AttemptRaises: no except clause, the exception of the attempt
\* leaves generate
AttemptRaises_propagates ==
    /\ gpc = "attempt"
    /\ attempt < gen_max_retries
    /\ Contact
    /\ GenReturns("raise")
    /\ UNCHANGED << waits, attempt >>
    /\ UNCHANGED << g_args, temp_files >>
    /\ UNCHANGED genFrame

\* lines 174-178, 302-309: the round trip (or the decoding or the save)
\* raises; the except clause sleeps and retries, or returns False at the last
AttemptRaises ==
    /\ gpc = "attempt"
    /\ attempt < gen_max_retries
    /\ Contact
    /\ IF BackoffAfterException(attempt)
       THEN /\ waits' = waits + 1
            /\ attempt' = attempt + 1
            /\ UNCHANGED << gpc, g_result >>
       ELSE /\ GenReturns("false")
            /\ UNCHANGED << waits, attempt >>
    /\ UNCHANGED << g_args, temp_files >>
    /\ UNCHANGED genFrame

\* lines 180-186: no candidates, no content or no parts; "continue"
AttemptInvalid ==
    /\ gpc = "attempt"
    /\ attempt < gen_max_retries
    /\ Contact
    /\ NextAttempt
    /\ UNCHANGED << g_args, waits, temp_files >>
    /\ UNCHANGED genFrame

\* lines 189-190, 216, 222, 294-298: the parts hold no inline image data that
\* is kept (text only, or every payload dropped by the decoding checks), so
\* file_index stays 0 and the loop goes on
AttemptNoImage ==
    /\ gpc = "attempt"
    /\ attempt < gen_max_retries
    /\ Contact
    /\ NextAttempt
    /\ UNCHANGED << g_args, waits, temp_files >>
    /\ UNCHANGED genFrame

\* lines 189-300: the first part with inline image data is written to the
\* output path and generate returns True
AttemptImage ==
    /\ gpc = "attempt"
    /\ attempt < gen_max_retries
    /\ \E mime_type \in MimeTypes :
         temp_files' = temp_files \cup {final_output_path(g_args, mime_type)}
    /\ Contact
    /\ GenReturns("true")
    /\ UNCHANGED << g_args, attempt, waits >>
    /\ UNCHANGED genFrame

\* generator.generate(image_paths=..., output_path=...) is called
CallGenerate(args) ==
    /\ gpc' = "enter"
    /\ g_args' = args
    /\ attempt' = 0
    /\ g_result' = "none"
    /\ waits' = 0
    /\ g_contacts' = 0

(***************************************************************************)
(* The Streamlit script (src/app.py): code verification, the history       *)
(* buttons and the four generation modes.                                  *)
(***************************************************************************)
Modes == {"basic", "fusion", "individual", "multi_scene"}

\* modes whose batch is a loop over items with a per-item try/except
LoopModes == {"individual", "multi_scene"}

NoResults == [m \in Modes |-> << >>]

\* the sequence s without its i-th element (list.pop(i-1))
Pop(s, i) == [k \in 1..(Len(s) - 1) |-> IF k < i THEN s[k] ELSE s[k + 1]]

\* no generate call is in progress
GenIdle ==
    /\ gpc' = "idle"
    /\ g_args' = NoArgs
    /\ attempt' = 0
    /\ g_result' = "none"
    /\ waits' = 0
    /\ g_contacts' = 0

\* no batch is in progress: the locals of the button handler do not exist
BatchIdle ==
    /\ opc' = "idle"
    /\ mode' = "none"
    /\ n_items' = 0
    /\ item' = 0
    /\ retry_count' = 0
    /\ success' = FALSE
    /\ success_count' = 0
    /\ temp_files' = {}
    /\ skipped' = 0
    /\ fresh' = FALSE
    /\ b_true' = 0
    /\ b_incr' = 0
    /\ b_fail' = FALSE
    /\ item_api' = 0

\* lines 247-267: the verify button
VerifyCode(experience_code) ==
    /\ opc = "idle"
    /\ gpc = "idle"
    /\ current_code = NoCode
    /\ IF experience_code # "" /\ validate_experience_code(lower(experience_code))[1]
       THEN LET code_hash == get_code_hash(lower(experience_code))
                usage_stats == load_usage_stats(usage_file)
            IN  /\ current_code' = lower(experience_code)
                /\ usage_file' = file_after_load(usage_file)
                /\ generated_count' =
                       IF code_hash \in DOMAIN usage_stats.usage_stats
                       THEN usage_stats.usage_stats[code_hash].total_generated
                       ELSE 0
       ELSE UNCHANGED << current_code, usage_file, generated_count >>
    /\ UNCHANGED << config_present, results, clock, recorded >>
    /\ UNCHANGED batchVars
    /\ UNCHANGED genVars
    /\ UNCHANGED outsideVars

\* a mutant of ChangeCode: changing the code also removes the ledger file
ChangeCode_forgets ==
    /\ opc = "idle"
    /\ gpc = "idle"
    /\ current_code # NoCode
    /\ load_experience_codes # << >>
    /\ current_code \in DOMAIN load_experience_codes[1].experience_codes
    /\ current_code' = NoCode
    /\ generated_count' = 0
    /\ usage_file' = << >>
    /\ UNCHANGED << config_present, results, clock, recorded >>
    /\ UNCHANGED batchVars
    /\ UNCHANGED genVars
    /\ UNCHANGED outsideVars

\* lines 281-303: the change-code button, shown while the code is in the registry
ChangeCode ==
    /\ opc = "idle"
    /\ gpc = "idle"
    /\ current_code # NoCode
    /\ load_experience_codes # << >>
    /\ current_code \in DOMAIN load_experience_codes[1].experience_codes
    /\ current_code' = NoCode
    /\ generated_count' = 0
    /\ UNCHANGED << config_present, results, usage_file, clock, recorded >>
    /\ UNCHANGED batchVars
    /\ UNCHANGED genVars
    /\ UNCHANGED outsideVars

\* lines 456-458, 676-678, 946-948, 1177-1179: one history entry is cleared
ClearOne(m, i) ==
    /\ opc = "idle"
    /\ gpc = "idle"
    /\ current_code # NoCode
    /\ i \in 1..Len(results[m])
    /\ results' = [results EXCEPT ![m] = Pop(@, i)]
    /\ UNCHANGED << config_present, current_code, generated_count,
                    usage_file, clock, recorded >>
    /\ UNCHANGED batchVars
    /\ UNCHANGED genVars
    /\ UNCHANGED outsideVars

\* lines 465-467, 685-687, 955-957, 1186-1188: a history list is cleared
ClearAll(m) ==
    /\ opc = "idle"
    /\ gpc = "idle"
    /\ current_code # NoCode
    /\ results[m] # << >>
    /\ results' = [results EXCEPT ![m] = << >>]
    /\ UNCHANGED << config_present, current_code, generated_count,
                    usage_file, clock, recorded >>
    /\ UNCHANGED batchVars
    /\ UNCHANGED genVars
    /\ UNCHANGED outsideVars

\* the number of generate items of a batch of mode m: one for basic and
\* fusion, one per garment for individual, one per portrait (at least two) for
\* multi_scene
ItemCounts(m) ==
    CASE m \in {"basic", "fusion"} -> {1}
      [] m = "individual" -> 1..MaxItems
      [] m = "multi_scene" -> 2..MaxItems

\* lines 469-478, 689-698, 959-968, 1190-1199: a generation button is pressed;
\* the page shows it only while get_remaining_images() > 0.  Lines 484-529,
\* 704-780, 974-1005, 1205-1240: the images processed before the first quota
\* check are normalised; one that cannot be decoded raises into the handler's
\* outer except (lines 637, 907, 1140, 1375) and ends the batch.
StartBatch(m, n, images_ok) ==
    /\ opc = "idle"
    /\ gpc = "idle"
    /\ current_code # NoCode
    /\ get_remaining_images > 0
    /\ n \in ItemCounts(m)
    /\ mode' = m
    /\ n_items' = n
    /\ item' = 1
    /\ opc' = IF images_ok THEN "check" ELSE "done"
    /\ b_fail' = ~images_ok
    /\ UNCHANGED << retry_count, success, success_count, temp_files, skipped,
                    fresh, b_true, b_incr, item_api >>
    /\ UNCHANGED << config_present, current_code, generated_count, results,
                    usage_file, clock, recorded >>
    /\ UNCHANGED genVars
    /\ UNCHANGED outsideVars

\* a mutant of QuotaExhausted: the batch stops only below zero
QuotaExhausted_below(remaining_before) == remaining_before < 0

\* lines 538, 789, 1011, 1246: "if remaining_before <= 0"
QuotaExhausted(remaining_before) == remaining_before <= 0

\* lines 537-540, 788-791 (success = False, the failure is reported) and
\* lines 1010-1014, 1245-1249 (the rest is reported as skipped, break)
CheckExhausted ==
    /\ opc = "check"
    /\ item <= n_items
    /\ QuotaExhausted(get_remaining_images)
    /\ skipped' = IF mode \in LoopModes THEN n_items - (item - 1) ELSE 0
    /\ opc' = "done"
    /\ UNCHANGED << mode, n_items, item, retry_count, success, success_count,
                    temp_files, fresh, b_true, b_incr, b_fail, item_api >>
    /\ UNCHANGED << config_present, current_code, generated_count, results,
                    usage_file, clock, recorded >>
    /\ UNCHANGED genVars
    /\ UNCHANGED outsideVars

\* lines 541-551, 792-802, 1016-1050, 1251-1285: the check passed, the item's
\* image is normalised, ImageGenerator() is built, the retry loop is set up
CheckPasses ==
    /\ opc = "check"
    /\ item <= n_items
    /\ ~QuotaExhausted(get_remaining_images)
    /\ retry_count' = 0
    /\ success' = FALSE
    /\ fresh' = TRUE
    /\ item_api' = 0
    /\ opc' = "while"
    /\ UNCHANGED << mode, n_items, item, success_count, temp_files, skipped,
                    b_true, b_incr, b_fail >>
    /\ UNCHANGED << config_present, current_code, generated_count, results,
                    usage_file, clock, recorded >>
    /\ UNCHANGED genVars
    /\ UNCHANGED outsideVars

\* where the script goes when it is done with the current item
ItemDone ==
    IF mode \in LoopModes
    THEN /\ item' = item + 1
         /\ opc' = "check"
    ELSE /\ item' = item
         /\ opc' = "done"

\* lines 1019-1041, 1254-1276 (the item's image cannot be decoded, or
\* ImageGenerator() raises: per-item except, continue) and lines 543, 794
\* (ImageGenerator() raises: except api_error, success = False)
ItemSetupRaises ==
    /\ opc = "check"
    /\ item <= n_items
    /\ ~QuotaExhausted(get_remaining_images)
    /\ b_fail' = TRUE
    /\ ItemDone
    /\ UNCHANGED << mode, n_items, retry_count, success, success_count,
                    temp_files, skipped, fresh, b_true, b_incr, item_api >>
    /\ UNCHANGED << config_present, current_code, generated_count, results,
                    usage_file, clock, recorded >>
    /\ UNCHANGED genVars
    /\ UNCHANGED outsideVars

\* lines 553-559, 804-810, 1052-1058, 1287-1293: the while condition holds and
\* generator.generate is called with the portrait and the garment(s)
InvokeGenerate ==
    /\ opc = "while"
    /\ retry_count < max_retries
    /\ ~success
    /\ CallGenerate([kind |-> "list", n |-> 2, readable |-> TRUE,
                     base |-> item, ext |-> ""])
    /\ opc' = "in_gen"
    /\ fresh' = FALSE
    /\ UNCHANGED << mode, n_items, item, retry_count, success, success_count,
                    temp_files, skipped, b_true, b_incr, b_fail, item_api >>
    /\ UNCHANGED << config_present, current_code, generated_count, results,
                    usage_file, clock, recorded >>
    /\ UNCHANGED outsideVars

\* lines 560-561, 811-812, 1059-1060, 1294-1295: success, break
GenerateSucceeded ==
    /\ opc = "in_gen"
    /\ gpc = "ret"
    /\ g_result = "true"
    /\ success' = TRUE
    /\ b_true' = b_true + 1
    /\ opc' = "lookup"
    /\ GenIdle
    /\ UNCHANGED << mode, n_items, item, retry_count, success_count,
                    temp_files, skipped, fresh, b_incr, b_fail, item_api >>
    /\ UNCHANGED << config_present, current_code, generated_count, results,
                    usage_file, clock, recorded >>
    /\ UNCHANGED outsideVars

\* lines 556-561 etc.: generate returned False; nothing is raised, so
\* retry_count keeps its value and the while condition is evaluated again
GenerateFailed ==
    /\ opc = "in_gen"
    /\ gpc = "ret"
    /\ g_result = "false"
    /\ success' = FALSE
    /\ b_fail' = TRUE
    /\ opc' = "while"
    /\ GenIdle
    /\ UNCHANGED << mode, n_items, item, retry_count, success_count,
                    temp_files, skipped, fresh, b_true, b_incr, item_api >>
    /\ UNCHANGED << config_present, current_code, generated_count, results,
                    usage_file, clock, recorded >>
    /\ UNCHANGED outsideVars

\* lines 562-567, 813-818, 1061-1066, 1296-1301: generate raised and tries
\* are left: retry_count += 1, time.sleep(2), loop
GenerateRaisedRetry ==
    /\ opc = "in_gen"
    /\ gpc = "ret"
    /\ g_result = "raise"
    /\ retry_count + 1 < max_retries
    /\ retry_count' = retry_count + 1
    /\ b_fail' = TRUE
    /\ opc' = "while"
    /\ GenIdle
    /\ UNCHANGED << mode, n_items, item, success, success_count,
                    temp_files, skipped, fresh, b_true, b_incr, item_api >>
    /\ UNCHANGED << config_present, current_code, generated_count, results,
                    usage_file, clock, recorded >>
    /\ UNCHANGED outsideVars

\* lines 568-574, 819-844 (raise retry_error, caught by except api_error:
\* success = False) and lines 1067-1069, 1098-1100, 1302-1304, 1333-1335
\* (raise retry_error, caught by the per-item except: continue)
GenerateRaisedLast ==
    /\ opc = "in_gen"
    /\ gpc = "ret"
    /\ g_result = "raise"
    /\ retry_count + 1 >= max_retries
    /\ retry_count' = retry_count + 1
    /\ b_fail' = TRUE
    /\ ItemDone
    /\ GenIdle
    /\ UNCHANGED << mode, n_items, success, success_count,
                    temp_files, skipped, fresh, b_true, b_incr, item_api >>
    /\ UNCHANGED << config_present, current_code, generated_count, results,
                    usage_file, clock, recorded >>
    /\ UNCHANGED outsideVars

\* extensions the script looks for in the temporary directory
LookupExts == {".png", ".jpg", ".jpeg"}

\* lines 580-583, 850-853, 1073-1076, 1308-1311: the files of the temporary
\* directory whose name starts with the item's output name and ends with one
\* of LookupExts (item numbers stay below 10, so a name starts with the
\* output name of item i only when it is a file of item i)
generated_files == { f \in temp_files : f.base = item /\ f.ext \in LookupExts }

\* lines 585-616, 855-886, 1078-1094, 1313-1329: a file was found; it is
\* appended to the history and increment_generated_count() is called
LookupFound ==
    /\ opc = "lookup"
    /\ generated_files # {}
    /\ results' = [results EXCEPT ![mode] = Append(@, item)]
    /\ success_count' = success_count + 1
    /\ increment_generated_count
    /\ b_incr' = b_incr + 1
    /\ ItemDone
    /\ UNCHANGED << mode, n_items, retry_count, success, temp_files, skipped,
                    fresh, b_true, b_fail, item_api >>
    /\ UNCHANGED << config_present, current_code >>
    /\ UNCHANGED genVars
    /\ UNCHANGED outsideVars

\* lines 632-633, 902-903 (the missing file is reported) and lines 1078,
\* 1313 (nothing is done for the item)
LookupMissing ==
    /\ opc = "lookup"
    /\ generated_files = {}
    /\ ItemDone
    /\ UNCHANGED << mode, n_items, retry_count, success, success_count,
                    temp_files, skipped, fresh, b_true, b_incr, b_fail, item_api >>
    /\ UNCHANGED << config_present, current_code, generated_count, results,
                    usage_file, clock, recorded >>
    /\ UNCHANGED genVars
    /\ UNCHANGED outsideVars

\* lines 1007, 1102-1104, 1242, 1337-1339: the for loop has run out
LoopEnds ==
    /\ opc = "check"
    /\ item > n_items
    /\ opc' = "done"
    /\ UNCHANGED << mode, n_items, item, retry_count, success, success_count,
                    temp_files, skipped, fresh, b_true, b_incr, b_fail, item_api >>
    /\ UNCHANGED << config_present, current_code, generated_count, results,
                    usage_file, clock, recorded >>
    /\ UNCHANGED genVars
    /\ UNCHANGED outsideVars

\* lines 485, 705, 975, 1206 (the TemporaryDirectory is removed) and the end
\* of the script run (st.rerun at lines 616, 886, 1110, 1345, or the page end)
BatchEnds ==
    /\ opc = "done"
    /\ BatchIdle
    /\ UNCHANGED << config_present, current_code, generated_count, results,
                    usage_file, clock, recorded >>
    /\ UNCHANGED genVars
    /\ UNCHANGED outsideVars

(***************************************************************************)
(* One session of the application.                                         *)
(***************************************************************************)
\* the two browser sessions of ConcSpec
Sessions == {1, 2}

\* no response part is being handled
NoBytes == [layers |-> 0, fmt |-> "none", len |-> 0, wrapped |-> FALSE, stray |-> "error"]
NoPayload == [type |-> "none", data |-> NoBytes, mime_type |-> "", ext |-> ""]
NoOutFile ==
    [status |-> "none", part |-> 0, data |-> NoBytes, ext |-> "",
     fixed_left |-> FALSE]

\* the other sessions have not started
ConcInit ==
    /\ s_code = [s \in Sessions |-> NoCode]
    /\ s_pc = [s \in Sessions |-> "idle"]
    /\ s_stats = [s \in Sessions |-> default_stats]
    /\ granted = [c \in Codes |-> 0]
    /\ writers = {}

\* no picture is being normalized
NoImage ==
    [mode |-> "none", colour |-> 0, alpha |-> 0, format |-> "none",
     site |-> "none"]
NormIdle ==
    /\ image = NoImage
    /\ normalized = NoImage

\* no payload is being decoded
DecodeIdle ==
    /\ payload = NoPayload
    /\ next_part = NoPayload
    /\ out_file = NoOutFile

OutsideInit ==
    /\ ConcInit
    /\ DecodeIdle
    /\ NormIdle

\* a session whose st.session_state.current_code is `code`, before any batch,
\* with no ledger file yet
SessionStart(code) ==
    /\ config_present \in BOOLEAN
    /\ current_code = code
    /\ generated_count = 0
    /\ results = NoResults
    /\ usage_file = << >>
    /\ clock = 0
    /\ recorded = [c \in Codes \cup StaleCodes |-> 0]
    /\ opc = "idle"
    /\ mode = "none"
    /\ n_items = 0
    /\ item = 0
    /\ retry_count = 0
    /\ success = FALSE
    /\ success_count = 0
    /\ temp_files = {}
    /\ skipped = 0
    /\ fresh = FALSE
    /\ b_true = 0
    /\ b_incr = 0
    /\ b_fail = FALSE
    /\ item_api = 0
    /\ gpc = "idle"
    /\ g_args = NoArgs
    /\ attempt = 0
    /\ g_result = "none"
    /\ waits = 0
    /\ g_contacts = 0

Init ==
    /\ SessionStart(NoCode)
    /\ OutsideInit

Next ==
    \/ \E experience_code \in CodeInputs : VerifyCode(experience_code)
    \/ ChangeCode
    \/ \E m \in Modes : \E i \in 1..MaxQuota : ClearOne(m, i)
    \/ \E m \in Modes : ClearAll(m)
    \/ \E m \in Modes : \E n \in 1..MaxItems : \E images_ok \in BOOLEAN :
           StartBatch(m, n, images_ok)
    \/ CheckExhausted
    \/ CheckPasses
    \/ ItemSetupRaises
    \/ InvokeGenerate
    \/ GenBuildRaises
    \/ GenBegin
    \/ AttemptRaises
    \/ AttemptInvalid
    \/ AttemptNoImage
    \/ AttemptImage
    \/ GenerateSucceeded
    \/ GenerateFailed
    \/ GenerateRaisedRetry
    \/ GenerateRaisedLast
    \/ LookupFound
    \/ LookupMissing
    \/ LoopEnds
    \/ BatchEnds

Spec == Init /\ [][Next]_vars

\* the synchronous script always takes its next step: an enabled step of
\* the session is eventually taken
FairSpec == Init /\ [][Next]_vars /\ WF_vars(Next)

(***************************************************************************)
(* One session whose ledger file can fail: usage_stats.json cannot be read *)
(* (line 125) or cannot be opened for writing (line 144).  The session is  *)
(* followed from the verification of its code to the end of its first      *)
(* batch.                                                                  *)
(***************************************************************************)
\* lines 585-609, 855-879 (the exception reaches the handler's outer except
\* at 637 / 907) and lines 1078-1100, 1313-1335 (it reaches the per-item
\* except: continue): a file was found and appended to the history, then
\* increment_generated_count() raised and left the ledger file as it was
LookupFoundLedgerFails ==
    /\ opc = "lookup"
    /\ generated_files # {}
    /\ current_code # NoCode
    /\ results' = [results EXCEPT ![mode] = Append(@, item)]
    /\ success_count' = success_count + 1
    /\ b_fail' = TRUE
    /\ ItemDone
    /\ UNCHANGED << mode, n_items, retry_count, success, temp_files, skipped,
                    fresh, b_true, b_incr, item_api >>
    /\ UNCHANGED << config_present, current_code, generated_count,
                    usage_file, clock, recorded >>
    /\ UNCHANGED genVars
    /\ UNCHANGED outsideVars

FaultNext ==
    \/ \E experience_code \in CodeInputs : VerifyCode(experience_code)
    \/ \E m \in Modes : \E n \in 1..MaxItems : \E images_ok \in BOOLEAN :
           StartBatch(m, n, images_ok)
    \/ CheckExhausted
    \/ CheckPasses
    \/ ItemSetupRaises
    \/ InvokeGenerate
    \/ GenBuildRaises
    \/ GenBegin
    \/ AttemptRaises
    \/ AttemptInvalid
    \/ AttemptNoImage
    \/ AttemptImage
    \/ GenerateSucceeded
    \/ GenerateFailed
    \/ GenerateRaisedRetry
    \/ GenerateRaisedLast
    \/ LookupFound
    \/ LookupFoundLedgerFails
    \/ LookupMissing
    \/ LoopEnds

FaultSpec == Init /\ [][FaultNext]_vars

(***************************************************************************)
(* The ledger functions called directly, any number of times.              *)
(***************************************************************************)
\* increment_generated_count() is called for the session's current code
CallIncrement ==
    /\ opc = "idle"
    /\ gpc = "idle"
    /\ current_code # NoCode => recorded[current_code] < MaxIncr
    /\ increment_generated_count
    /\ UNCHANGED << config_present, current_code, results >>
    /\ UNCHANGED batchVars
    /\ UNCHANGED genVars
    /\ UNCHANGED outsideVars

LedgerNext ==
    \/ \E experience_code \in CodeInputs : VerifyCode(experience_code)
    \/ ChangeCode
    \/ CallIncrement

LedgerSpec == Init /\ [][LedgerNext]_vars

(***************************************************************************)
(* The ledger functions called by a session that can hold a code which is  *)
(* no longer a key of the registry (st.session_state outlives an edit of   *)
(* the secrets).                                                           *)
(***************************************************************************)
StaleInit ==
    /\ \E code \in StaleCodes \cup {NoCode} : SessionStart(code)
    /\ OutsideInit

StaleSpec == StaleInit /\ [][LedgerNext]_vars

(***************************************************************************)
(* ImageGenerator.generate called directly, with any arguments.            *)
(***************************************************************************)
PathKinds == {"list", "tuple", "str"}

\* generate(image_paths, output_path) is called on an empty output directory
DirectCall(kind, n, readable, ext) ==
    /\ opc = "idle"
    /\ gpc = "idle"
    /\ CallGenerate([kind |-> kind, n |-> n, readable |-> readable,
                     base |-> 0, ext |-> ext])
    /\ temp_files' = {}
    /\ item_api' = 0
    /\ UNCHANGED << opc, mode, n_items, item, retry_count, success,
                    success_count, skipped, fresh, b_true, b_incr, b_fail >>
    /\ UNCHANGED << config_present, current_code, generated_count, results,
                    usage_file, clock, recorded >>
    /\ UNCHANGED outsideVars

\* the direct caller has the result of generate
DirectReturn ==
    /\ opc = "idle"
    /\ gpc = "ret"
    /\ GenIdle
    /\ UNCHANGED batchVars
    /\ UNCHANGED << config_present, current_code, generated_count, results,
                    usage_file, clock, recorded >>
    /\ UNCHANGED outsideVars

GenNext ==
    \/ \E kind \in PathKinds : \E n \in 0..MaxPaths : \E readable \in BOOLEAN :
         \E ext \in PathExts \cup {""} : DirectCall(kind, n, readable, ext)
    \/ GenRejectArgs
    \/ GenReadFails
    \/ GenBuildRaises
    \/ GenBegin
    \/ AttemptRaises
    \/ AttemptInvalid
    \/ AttemptNoImage
    \/ AttemptImage
    \/ DirectReturn

GenSpec == Init /\ [][GenNext]_vars

(***************************************************************************)
(* Several browser sessions.  Streamlit runs the script of each session on *)
(* its own thread; the sessions share usage_stats.json and nothing else.   *)
(* A session is followed through the steps that touch the ledger: the      *)
(* verification of its code, the quota check of an item, the generate call *)
(* and the load and the save inside increment_generated_count.             *)
(***************************************************************************)
\* what the steps of the concurrent sessions leave alone
aloneVars == << config_present, sessionVars, batchVars, genVars, decodeVars,
               normVars, writers >>

\* lines 247-263: the verify button of session s
SessionVerify(s, experience_code) ==
    /\ s_pc[s] = "idle"
    /\ s_code[s] = NoCode
    /\ experience_code # ""
    /\ validate_experience_code(lower(experience_code))[1]
    /\ s_code' = [s_code EXCEPT ![s] = lower(experience_code)]
    /\ usage_file' = file_after_load(usage_file)
    /\ UNCHANGED << s_pc, s_stats, granted, clock, recorded >>
    /\ UNCHANGED aloneVars

\* lines 295-303: the change-code button of session s
SessionChangeCode(s) ==
    /\ s_pc[s] = "idle"
    /\ s_code[s] # NoCode
    /\ s_code' = [s_code EXCEPT ![s] = NoCode]
    /\ UNCHANGED << s_pc, s_stats, granted, usage_file, clock, recorded >>
    /\ UNCHANGED aloneVars

\* lines 537-541, 788-792, 1010-1016, 1245-1251: the quota check of an item
\* passes in session s (a check that does not pass changes nothing)
SessionCheckPasses(s) ==
    /\ s_pc[s] = "idle"
    /\ s_code[s] # NoCode
    /\ ~QuotaExhausted(RemainingOf(s_code[s], usage_file))
    /\ s_pc' = [s_pc EXCEPT ![s] = "checked"]
    /\ usage_file' = file_after_load(usage_file)
    /\ UNCHANGED << s_code, s_stats, granted, clock, recorded >>
    /\ UNCHANGED aloneVars

\* lines 556-561, 580-607 etc.: generate returned True in session s and the
\* file was found and appended to the history
SessionGenerated(s) ==
    /\ s_pc[s] = "checked"
    /\ s_pc' = [s_pc EXCEPT ![s] = "generated"]
    /\ granted' = [granted EXCEPT ![s_code[s]] = @ + 1]
    /\ UNCHANGED << s_code, s_stats, usage_file, clock, recorded >>
    /\ UNCHANGED aloneVars

\* lines 562-574, 632-635 etc.: the item of session s failed
SessionGenerateFails(s) ==
    /\ s_pc[s] = "checked"
    /\ s_pc' = [s_pc EXCEPT ![s] = "idle"]
    /\ UNCHANGED << s_code, s_stats, granted, usage_file, clock, recorded >>
    /\ UNCHANGED aloneVars

\* lines 124-125: increment_generated_count of session s reads the ledger
SessionIncrementLoads(s) ==
    /\ s_pc[s] = "generated"
    /\ s_pc' = [s_pc EXCEPT ![s] = "loaded"]
    /\ s_stats' = [s_stats EXCEPT ![s] = load_usage_stats(usage_file)]
    /\ usage_file' = file_after_load(usage_file)
    /\ UNCHANGED << s_code, granted, clock, recorded >>
    /\ UNCHANGED aloneVars

\* lines 127-144: increment_generated_count of session s updates the
\* document it read and writes it back
SessionIncrementSaves(s) ==
    /\ s_pc[s] = "loaded"
    /\ \E t1 \in Later(clock) : \E t2 \in Later(t1) :
         /\ usage_file' = save_usage_stats(
                UpdatedStats(s_stats[s], get_code_hash(s_code[s]), t1, t2))
         /\ clock' = t2
    /\ recorded' = [recorded EXCEPT ![s_code[s]] = @ + 1]
    /\ s_pc' = [s_pc EXCEPT ![s] = "idle"]
    /\ s_stats' = [s_stats EXCEPT ![s] = default_stats]
    /\ UNCHANGED << s_code, granted >>
    /\ UNCHANGED aloneVars

ConcNext ==
    \E s \in Sessions :
        \/ \E experience_code \in CodeInputs : SessionVerify(s, experience_code)
        \/ SessionChangeCode(s)
        \/ SessionCheckPasses(s)
        \/ SessionGenerated(s)
        \/ SessionGenerateFails(s)
        \/ SessionIncrementLoads(s)
        \/ SessionIncrementSaves(s)

ConcSpec == Init /\ [][ConcNext]_vars

(***************************************************************************)
(* The sessions of ConcSpec with save_usage_stats in its two steps: the    *)
(* open(..., 'w') of line 91, which truncates usage_stats.json, and the    *)
(* json.dump of line 92, which writes the document.  A session in writers  *)
(* has opened the file and not yet finished writing; until the last of     *)
(* them has finished the file holds no complete document, and the document *)
(* left is the one of the session that finishes last.                      *)
(***************************************************************************)
\* lines 79-80: json.load finds a complete document in the file
FileReadable == writers = {}

\* lines 247-263 with a readable ledger
VerifyReads(s, experience_code) ==
    /\ FileReadable
    /\ SessionVerify(s, experience_code)

\* the quota check of an item with a readable ledger
CheckReads(s) ==
    /\ FileReadable
    /\ SessionCheckPasses(s)

\* generate returns True in session s (counted up to MaxIncr per code)
GenerateGrants(s) ==
    /\ s_code[s] # NoCode
    /\ granted[s_code[s]] < MaxIncr
    /\ SessionGenerated(s)

\* lines 124-125 with a readable ledger
IncrementReads(s) ==
    /\ FileReadable
    /\ SessionIncrementLoads(s)

\* lines 79-81: the file exists but holds an empty or a partial document;
\* json.load raises json.JSONDecodeError, which the except clause of line 81
\* (FileNotFoundError) does not catch.  The read is the one of a quota check
\* (get_remaining_images, line 104) or of increment_generated_count (line 125)
ReadRaises(s) ==
    /\ ~FileReadable
    /\ s_code[s] # NoCode
    /\ s_pc[s] \in {"idle", "generated"}
    /\ s_pc' = [s_pc EXCEPT ![s] = "read_failed"]
    /\ UNCHANGED << s_code, s_stats, granted, usage_file, clock, recorded, writers >>
    /\ UNCHANGED << config_present, sessionVars, batchVars, genVars, decodeVars,
                    normVars >>

\* lines 637-640, 905-909, 1098-1100, 1337-1339: the except clause of the
\* item (or of the mode) reports the error; the script goes on
ReadFailureCaught(s) ==
    /\ s_pc[s] = "read_failed"
    /\ s_pc' = [s_pc EXCEPT ![s] = "idle"]
    /\ UNCHANGED << s_code, s_stats, granted, usage_file, clock, recorded, writers >>
    /\ UNCHANGED << config_present, sessionVars, batchVars, genVars, decodeVars,
                    normVars >>

\* lines 127-141 and 91: increment_generated_count of session s updates the
\* document it read, and save_usage_stats opens the file for writing
SaveOpens(s) ==
    /\ s_pc[s] = "loaded"
    /\ \E t1 \in Later(clock) : \E t2 \in Later(t1) :
         /\ s_stats' = [s_stats EXCEPT ![s] =
                UpdatedStats(s_stats[s], get_code_hash(s_code[s]), t1, t2)]
         /\ clock' = t2
    /\ writers' = writers \cup {s}
    /\ s_pc' = [s_pc EXCEPT ![s] = "writing"]
    /\ UNCHANGED << s_code, granted, usage_file, recorded >>
    /\ UNCHANGED << config_present, sessionVars, batchVars, genVars, decodeVars,
                    normVars >>

\* line 92: json.dump has written the document and the file is closed
SaveCompletes(s) ==
    /\ s_pc[s] = "writing"
    /\ usage_file' = save_usage_stats(s_stats[s])
    /\ writers' = writers \ {s}
    /\ recorded' = [recorded EXCEPT ![s_code[s]] = @ + 1]
    /\ s_pc' = [s_pc EXCEPT ![s] = "idle"]
    /\ s_stats' = [s_stats EXCEPT ![s] = default_stats]
    /\ UNCHANGED << s_code, granted, clock >>
    /\ UNCHANGED << config_present, sessionVars, batchVars, genVars, decodeVars,
                    normVars >>

TornNext ==
    \E s \in Sessions :
        \/ \E experience_code \in CodeInputs : VerifyReads(s, experience_code)
        \/ SessionChangeCode(s)
        \/ CheckReads(s)
        \/ GenerateGrants(s)
        \/ SessionGenerateFails(s)
        \/ IncrementReads(s)
        \/ ReadRaises(s)
        \/ ReadFailureCaught(s)
        \/ SaveOpens(s)
        \/ SaveCompletes(s)

TornSpec == Init /\ [][TornNext]_vars

(***************************************************************************)
(* The handling of the parts of one response by generate                   *)
(* (image_generator.py, lines 189-300): decoding of the inline data,       *)
(* choice of the file name, save, validation and repair.  A byte string is *)
(* described by the image it carries: layers = 0 for the image's own bytes *)
(* and 1 for the base64 text of them, fmt for the image's format, len for  *)
(* the length of the image's own bytes, wrapped for a base64 text broken   *)
(* into lines, stray for what base64.b64decode makes of the image's own    *)
(* bytes ("error": it raises binascii.Error, "junk": it returns what the   *)
(* characters of the alphabet among them decode to).                       *)
(***************************************************************************)
\* lengths of the images the API sends
ImageSizes == {90, 747, 748, 999, 1000, 3000}

\* the formats of the images: the media types generate names, lines 228-233
ImageFormats == {"png", "jpeg", "webp"}

StrayOutcomes == {"error", "junk"}

\* the byte strings the inline data can hold
ImageBytes ==
    { [layers |-> 0, fmt |-> f, len |-> n, wrapped |-> FALSE, stray |-> y] :
          f \in ImageFormats, n \in ImageSizes, y \in StrayOutcomes }
Base64Texts ==
    { [layers |-> 1, fmt |-> f, len |-> n, wrapped |-> w, stray |-> y] :
          f \in ImageFormats, n \in ImageSizes, w \in BOOLEAN,
          y \in StrayOutcomes }

\* the parts generate is given: inline data of either type, a declared media
\* type, and the extension of the output path of the call.  A str of
\* layers = 0 holds the image's own bytes, one character per byte.
Payloads ==
    [type : {"str", "bytes"}, data : ImageBytes \cup Base64Texts,
     mime_type : MimeTypes, ext : PathExts \cup {""}]

\* the parts that can follow the first part with inline data in the same
\* response, for a call whose output path ends with ext
LaterParts(ext) ==
    {NoPayload} \cup
    { p \in Payloads : /\ p.ext = ext
                       /\ p.mime_type = "image/jpeg"
                       /\ p.data.fmt = "jpeg"
                       /\ p.data.len = 3000
                       /\ ~p.data.wrapped
                       /\ p.data.stray = "error" }

\* the length of the base64 text of n bytes
B64Len(n) == 4 * ((n + 2) \div 3)

\* len(b): line breaks come after every 76 characters of a wrapped text
Length(b) ==
    IF b.layers = 0
    THEN b.len
    ELSE B64Len(b.len) + (IF b.wrapped THEN (B64Len(b.len) + 75) \div 76 ELSE 0)

\* base64.b64decode accepts the str b: it is base64 text; characters outside
\* the alphabet (line breaks) are discarded, and a str with a character that
\* is not ASCII (the first byte of a PNG or a JPEG) raises ValueError
Decodable(b) == b.layers > 0

\* base64.b64decode accepts the bytes b (line 271): as for a str, except that
\* bytes outside the alphabet are discarded whatever they are
DecodableBytes(b) == b.layers > 0 \/ b.stray = "junk"

\* what b64decode returns for bytes that are no base64 text: no image
Junk == [layers |-> 0, fmt |-> "junk", len |-> 0, wrapped |-> FALSE, stray |-> "error"]

\* base64.b64decode(b) for a b it accepts
b64decode(b) ==
    IF b.layers > 0 THEN [b EXCEPT !.layers = @ - 1, !.wrapped = FALSE] ELSE Junk

\* base64.b64encode(b): the text without line breaks
b64encode(b) == [b EXCEPT !.layers = @ + 1, !.wrapped = FALSE]

\* _validate_image_file: the file starts with the PNG or the JPEG signature
IsValidImage(b) == b.layers = 0 /\ b.fmt \in {"png", "jpeg"}

\* lines 202-222: the part is dropped ("continue") when its text cannot be
\* decoded, or decodes to something short that does not re-encode to it
PartDropped(p) ==
    /\ p.type = "str"
    /\ \/ ~Decodable(p.data)
       \/ /\ Length(b64decode(p.data)) < min_decoded_size
          /\ b64encode(b64decode(p.data)) # p.data

\* lines 202-225: data_buffer after the decoding step
DataBuffer(p) == IF p.type = "str" THEN b64decode(p.data) ELSE p.data

\* lines 239-245: the extension of final_output_path
FinalExt(p) == IF p.ext \in PathExts THEN p.ext ELSE file_extension(p.mime_type)

\* lines 251-271: validation of the written file has failed, the file is
\* short and b64decode accepts its bytes
RepairDecodes(p) ==
    /\ ~IsValidImage(DataBuffer(p))
    /\ Length(DataBuffer(p)) < max_repair_size
    /\ DecodableBytes(DataBuffer(p))

\* lines 248-290: the file at final_output_path after save, validation and
\* repair; fixed_left tells whether a *_fixed.png file stays behind
SavedFile(p) ==
    LET written == DataBuffer(p)
        kept == [status |-> "written", part |-> 0, data |-> written,
                 ext |-> FinalExt(p), fixed_left |-> FALSE]
    IN  IF RepairDecodes(p)
        THEN LET fixed_data == b64decode(written)
             IN  IF FinalExt(p) = ".png"
                 THEN \* fixed_path is a file of its own
                      IF IsValidImage(fixed_data)
                      THEN [kept EXCEPT !.data = fixed_data]
                      ELSE [kept EXCEPT !.fixed_left = TRUE]
                 ELSE \* replace('.png', ...) changes nothing: fixed_path is
                      \* final_output_path and is overwritten at once
                      [kept EXCEPT !.data = fixed_data]
        ELSE kept

\* no part of the response was saved: file_index is still 0 at line 297
NothingSaved ==
    [status |-> "dropped", part |-> 0, data |-> NoBytes, ext |-> "",
     fixed_left |-> FALSE]

\* lines 189-295: the loop over the parts of a response whose parts with
\* inline data are `first` and then `second` (NoPayload when there is one
\* only); a dropped part sends the loop to the next part, a saved part ends
\* it ("break")
PartsResult(first, second) ==
    IF ~PartDropped(first)
    THEN [SavedFile(first) EXCEPT !.part = 1]
    ELSE IF second # NoPayload /\ ~PartDropped(second)
    THEN [SavedFile(second) EXCEPT !.part = 2]
    ELSE NothingSaved

\* lines 297-300: what the attempt hands to the caller of generate: True when
\* a part was saved (file_index > 0), nothing when the attempt goes on to the
\* next one
GenerateReturns(out) == IF out.status = "written" THEN "true" ELSE "none"

\* the part of the response the saved file was made from
SourcePart == IF out_file.part = 2 THEN next_part ELSE payload

\* lines 189-300: generate handles the parts of the response
HandlePart ==
    /\ payload # NoPayload
    /\ out_file.status = "none"
    /\ out_file' = PartsResult(payload, next_part)
    /\ UNCHANGED << payload, next_part, concVars, normVars, writers >>
    /\ UNCHANGED << config_present, sessionVars, ledgerVars, batchVars, genVars >>

DecodeInit ==
    /\ SessionStart(NoCode)
    /\ ConcInit
    /\ payload \in Payloads
    /\ next_part \in LaterParts(payload.ext)
    /\ out_file = NoOutFile
    /\ NormIdle

DecodeNext == HandlePart

DecodeSpec == DecodeInit /\ [][DecodeNext]_vars

(***************************************************************************)
(* The normalization of an uploaded picture before it is handed to         *)
(* generate (app.py, lines 494-508, 514-528, 1020-1035).  A picture is     *)
(* described by its Pillow mode and by one of its pixels: the level of its *)
(* colour channels and its alpha (255 when the mode carries none).         *)
(***************************************************************************)
\* the places of the script that normalize a picture
Sites == {"person_image", "clothes_image"}

\* Pillow modes of the pictures Image.open returns
ImageModes == {"1", "L", "LA", "P", "PA", "RGB", "RGBA", "CMYK"}

\* the modes that carry transparency: an alpha band, or a palette with a
\* transparent entry
AlphaModes == {"LA", "P", "PA", "RGBA"}

\* levels of a channel
Levels == {0, 100, 255}

Opaque == 255
White == 255

\* the pictures a user can upload
Images ==
    { i \in [mode : ImageModes, colour : Levels, alpha : Levels,
             format : {"PNG"}, site : Sites] :
          /\ i.mode \notin AlphaModes => i.alpha = Opaque
          /\ i.mode = "1" => i.colour \in {0, White} }

\* background.paste(image, mask=alpha band): the pixel over white
Composite(colour, alpha) == (colour * alpha + White * (Opaque - alpha)) \div Opaque

\* lines 498-508 and 1024-1035: only mode RGBA is pasted on a white
\* background; every other mode but RGB goes through convert('RGB'), which
\* keeps the colour of the pixel and discards its alpha; the picture is
\* saved as JPEG
NormalizedImage(i) ==
    [mode |-> "RGB",
     colour |-> IF i.mode = "RGBA" THEN Composite(i.colour, i.alpha) ELSE i.colour,
     alpha |-> Opaque,
     format |-> "JPEG",
     site |-> i.site]

\* Image.open ... image.save(path, "JPEG", quality=95)
Normalize ==
    /\ image # NoImage
    /\ normalized = NoImage
    /\ normalized' = NormalizedImage(image)
    /\ UNCHANGED << image, concVars, decodeVars, writers >>
    /\ UNCHANGED << config_present, sessionVars, ledgerVars, batchVars, genVars >>

NormalizeInit ==
    /\ SessionStart(NoCode)
    /\ ConcInit
    /\ DecodeIdle
    /\ image \in Images
    /\ normalized = NoImage

NormalizeNext == Normalize

NormalizeSpec == NormalizeInit /\ [][NormalizeNext]_vars

(***************************************************************************)
(* Properties.                                                             *)
(***************************************************************************)
\* max_images of a code of the registry
QuotaOf(c) == experience_codes[c].max_images

\* total_generated of a code in the ledger file, 0 when it has no record
TotalOf(c) ==
    LET stats == load_usage_stats(usage_file).usage_stats
    IN  IF get_code_hash(c) \in DOMAIN stats
        THEN stats[get_code_hash(c)].total_generated
        ELSE 0

\* C1: for every code C of the registry with max_images = K, after exactly k
\* increments recorded for C (k = recorded[C], nothing else writes the
\* ledger), get_remaining_images for C returns max(0, K - k); checked for k
\* up to MaxIncr, which is above K.
C1_RemainingAfterK ==
    config_present =>
        \A c \in Codes :
            RemainingOf(c, usage_file) = Max0(QuotaOf(c) - recorded[c])

\* C1 witness: more increments than the quota were recorded and the
\* remaining count is 0
C1_Witness ==
    /\ config_present
    /\ current_code = "abc123"
    /\ recorded["abc123"] = MaxQuota + 1
    /\ get_remaining_images = 0

\* C2 (as claimed): when a batch is over, increment_generated_count was
\* called once for each generate call that returned True, and for no other
C2_IncrementPerSuccess ==
    opc = "done" => b_incr = b_true

\* C3: in one session, total_generated of no code exceeds its max_images
C3_QuotaCeiling ==
    \A c \in Codes : TotalOf(c) <= QuotaOf(c)

\* C3 witness: a batch of a loop mode was stopped at the quota check with the
\* ledger at the ceiling
C3_Witness ==
    /\ opc = "done"
    /\ mode \in LoopModes
    /\ skipped > 0
    /\ b_incr > 0
    /\ current_code = "abc123"
    /\ TotalOf("abc123") = MaxQuota

\* C4 (as claimed): every call of generate, a re-invocation by the retry
\* loop included, is immediately preceded by a quota check that passed
C4_CheckBeforeEveryCall ==
    [][(opc = "while" /\ opc' = "in_gen") => fresh]_vars

\* C4 (amended): the first call of generate for an item is immediately
\* preceded by a quota check that passed, a re-invocation for the same item
\* is not, and whenever generate is called the remaining quota is above 0
C4_CheckBeforeFirstCall ==
    /\ [][(opc = "while" /\ opc' = "in_gen" /\ retry_count = 0 /\ item_api = 0)
            => fresh]_vars
    /\ [][(opc = "while" /\ opc' = "in_gen") => get_remaining_images > 0]_vars

\* C4 witness: generate is running as a re-invocation, after a call for the
\* same item that contacted the API and failed
C4_Witness ==
    /\ opc = "in_gen"
    /\ gpc = "enter"
    /\ item_api >= gen_max_retries
    /\ ~fresh
    /\ get_remaining_images > 0

\* the remaining quota the batch started with (one session)
RemainingAtStart == get_remaining_images + b_incr

\* C5 (as claimed): a batch of a loop mode with N items started with R
\* remaining, 0 < R < N, in which every generate call returned True, ends with
\* exactly R results in the history and in the ledger and N - R items
\* reported as skipped
C5_PartialBatch ==
    (/\ opc = "done"
     /\ mode \in LoopModes
     /\ ~b_fail
     /\ RemainingAtStart < n_items)
    => (/\ success_count = RemainingAtStart
        /\ b_incr = RemainingAtStart
        /\ skipped = n_items - RemainingAtStart)

\* C6 (as claimed): every batch that has started reaches its end
C6_BatchTerminates ==
    (opc = "check") ~> (opc = "done")

\* C7 (as claimed): in a loop mode, when generate has reported failure for
\* item i the script goes on to the quota check of item i+1
C7_FailedItemMovesOn ==
    [][(/\ opc = "in_gen"
        /\ gpc = "ret"
        /\ g_result \in {"false", "raise"}
        /\ g_result = "raise" => retry_count + 1 >= max_retries
        /\ mode \in LoopModes)
       => (opc' = "check" /\ item' = item + 1)]_vars

\* C8 (as claimed): the API is contacted at most 3 times for one item
C8_ThreeContactsPerItem ==
    item_api <= 3

\* C9 (as claimed): inside one generate call a backoff wait lies between
\* every two consecutive attempts, so a call that succeeds on its 3rd
\* attempt has waited exactly twice, and no wait follows the last attempt
C9_BackoffBetweenAttempts ==
    /\ gpc = "attempt" => waits = attempt
    /\ (gpc = "ret" /\ g_result = "true") => waits = attempt
    /\ gpc = "ret" => waits < gen_max_retries

\* C10: generate called with something that is no list/tuple, or with fewer
\* than 2 paths, returns False without a network call, a file or a wait
C10_ShortInputRejected ==
    (gpc # "idle" /\ (g_args.kind \notin {"list", "tuple"} \/ g_args.n < 2))
    => (/\ gpc \in {"enter", "ret"}
        /\ gpc = "ret" => g_result = "false"
        /\ g_contacts = 0
        /\ temp_files = {}
        /\ waits = 0)

\* C10 witness: a call with a list of one path has returned False
C10_Witness ==
    /\ gpc = "ret"
    /\ g_args.kind = "list"
    /\ g_args.n = 1
    /\ g_result = "false"
    /\ g_contacts = 0

\* a code without a usage record
NoRecord == [total_generated |-> 0, last_used |-> None, first_used |-> None]

\* whether a ledger file holds a usage record for the code
HasRecord(file, c) ==
    file # << >> /\ get_code_hash(c) \in DOMAIN file[1].usage_stats

\* the usage record of a code in a ledger file
RecordIn(file, c) ==
    IF HasRecord(file, c) THEN file[1].usage_stats[get_code_hash(c)] ELSE NoRecord

\* C11: each increment_generated_count call for a validated code (a step
\* that raises recorded[c]) leaves a usage record for the code, raises its
\* total_generated by exactly 1, sets last_used to a reading of the clock
\* taken during the call, and sets first_used only when the record had none;
\* a first_used that is set is never changed again, so after any sequence of
\* increments it still holds the time of the first one
C11_IncrementContract ==
    [][\A c \in Codes :
          recorded'[c] # recorded[c] =>
              LET old == RecordIn(usage_file, c)
                  new == RecordIn(usage_file', c)
              IN  /\ HasRecord(usage_file', c)
                  /\ new.total_generated = old.total_generated + 1
                  /\ clock <= new.last_used /\ new.last_used <= clock'
                  /\ IF old.first_used = None
                     THEN clock <= new.first_used /\ new.first_used <= clock'
                     ELSE new.first_used = old.first_used]_vars

\* C11 witness: a second increment at a later time moved last_used and kept
\* the first_used of the first increment
C11_Witness ==
    /\ current_code = "abc123"
    /\ recorded["abc123"] = 2
    /\ RecordIn(usage_file, "abc123").total_generated = 2
    /\ RecordIn(usage_file, "abc123").first_used = 0
    /\ RecordIn(usage_file, "abc123").last_used = 1

\* C12 (as claimed): the record left by the first increment for a code has
\* first_used equal to last_used, and in every state first_used is not later
\* than last_used, however the clock moves between two readings
C12_FirstEqualsLast ==
    \A c \in Codes :
        HasRecord(usage_file, c) =>
            /\ RecordIn(usage_file, c).first_used <= RecordIn(usage_file, c).last_used
            /\ RecordIn(usage_file, c).total_generated = 1 =>
                   RecordIn(usage_file, c).first_used = RecordIn(usage_file, c).last_used

\* C13 (as claimed): whatever sessions read and increment the ledger, no step
\* lowers the persisted total_generated of a code
C13_TotalNeverDecreases ==
    [][\A c \in Codes :
          RecordIn(usage_file', c).total_generated
              >= RecordIn(usage_file, c).total_generated]_vars

\* C19: with the sessions interleaving check, generate call and increment,
\* a code is granted more successful generations than its max_images (the
\* witness), although every generate call is made by a session whose own
\* quota check had just found the code's remaining count above 0: the
\* excess comes from the window between a session's check and its save
C19_OverGrantDespiteChecks ==
    [][\A s \in Sessions :
          (s_pc[s] = "idle" /\ s_pc'[s] = "checked") =>
              RemainingOf(s_code[s], usage_file) > 0]_vars

\* C19 witness: two sessions on abc123, the other code never used, every
\* generation recorded, and one generation more than max_images granted
C19_Witness ==
    /\ s_code[1] = "abc123"
    /\ s_code[2] = "abc123"
    /\ granted["xyz789"] = 0
    /\ granted["abc123"] = MaxQuota + 1
    /\ TotalOf("abc123") = MaxQuota + 1
    /\ recorded["abc123"] = MaxQuota + 1

\* C20: the increment is a load followed later by a save of the loaded
\* document: the total a session saves is one more than the total it loaded,
\* whatever the file holds by then, so the persisted total never exceeds the
\* number of increments performed and can fall short of it (the witness:
\* two increments, total raised by 1)
C20_IncrementNotAtomic ==
    /\ [](\A c \in Codes : TotalOf(c) <= recorded[c])
    /\ [][\A s \in Sessions :
             (s_pc[s] = "loaded" /\ s_pc'[s] = "idle") =>
                 RecordIn(usage_file', s_code[s]).total_generated
                     = RecordIn(<< s_stats[s] >>, s_code[s]).total_generated + 1]_vars

\* C20 witness: both sessions are on abc123 and have each completed one
\* increment, the other code was never used, and total_generated is 1
C20_Witness ==
    /\ s_code[1] = "abc123"
    /\ s_code[2] = "abc123"
    /\ s_pc[1] = "idle"
    /\ s_pc[2] = "idle"
    /\ granted = [c \in Codes |-> IF c = "abc123" THEN 2 ELSE 0]
    /\ recorded["abc123"] = 2
    /\ TotalOf("abc123") = 1

\* C14: once the remaining count of a registry code is 0 (its quota is used
\* up), no step of the session (verifying or changing the code, a batch,
\* clearing the history) makes it positive again, removes a usage record or
\* lowers a counter
C14_ExhaustedStaysExhausted ==
    [][\A c \in Codes :
          /\ (config_present /\ RemainingOf(c, usage_file) = 0)
                 => RemainingOf(c, usage_file') = 0
          /\ HasRecord(usage_file, c) => HasRecord(usage_file', c)
          /\ RecordIn(usage_file', c).total_generated
                 >= RecordIn(usage_file, c).total_generated]_vars

\* C14 witness: xyz789 was used up, the session went on with abc123, ran a
\* batch with it and cleared its history; xyz789 still has nothing left
C14_Witness ==
    /\ config_present
    /\ opc = "idle"
    /\ current_code = "abc123"
    /\ TotalOf("abc123") >= 1
    /\ results = NoResults
    /\ TotalOf("xyz789") = QuotaOf("xyz789")
    /\ RemainingOf("xyz789", usage_file) = 0

\* results appended in this batch whose increment_generated_count call raised
LedgerFailures == success_count - b_incr

\* C15 (as claimed): in a batch of a loop mode, once recording a successful
\* generation has failed on the ledger, generate is not called again
C15_LedgerFailureAborts ==
    (mode \in LoopModes /\ LedgerFailures > 0) => opc # "in_gen"

\* C16 (as claimed): when the inline data is the base64 text of a valid PNG
\* (a str, or bytes holding the text, without line breaks, of any length),
\* the file left at the output path holds exactly the bytes of that PNG
C16_Base64PngRoundTrip ==
    (/\ out_file.status # "none"
     /\ payload.data.layers = 1
     /\ payload.data.fmt = "png"
     /\ ~payload.data.wrapped)
    => (/\ out_file.status = "written"
        /\ out_file.data = b64decode(payload.data))

\* the code is not a key of the registry the session can load
NotInRegistry(code) ==
    \/ load_experience_codes = << >>
    \/ code \notin DOMAIN load_experience_codes[1].experience_codes

\* C17: get_remaining_images returns 0 whenever the session has no validated
\* code or its code is not a key of the registry, whatever the ledger holds
C17_ZeroWithoutValidCode ==
    (current_code = NoCode \/ NotInRegistry(current_code))
        => get_remaining_images = 0

\* C17 witness: the registry is there, the session holds a code that is not
\* one of its keys, the ledger has a record for that code with one use, and
\* the remaining count is 0
C17_Witness ==
    /\ config_present
    /\ current_code = "old000"
    /\ HasRecord(usage_file, "old000")
    /\ TotalOf("old000") = 1
    /\ get_remaining_images = 0

\* what validate_experience_code returns for a code that is not in a
\* registry that is there: the recoverable "code not found"
CodeNotFound ==
    ValidateIn(<< [experience_codes |-> experience_codes] >>, "nocode")

\* C18 (as claimed): with the configuration absent, what code validation
\* returns differs from the "code not found" outcome
C18_ConfigMissingDistinct ==
    ~config_present =>
        \A code \in CodeInputs : validate_experience_code(code) # CodeNotFound


\* C21 (as claimed): when the inline data of the only part is a str that
\* base64.b64decode rejects, generate saves that data unmodified at the
\* output path; the part is not dropped
C21_UndecodableKeptAsBinary ==
    (/\ out_file.status # "none"
     /\ payload.type = "str"
     /\ ~Decodable(payload.data)
     /\ next_part = NoPayload)
    => (/\ out_file.status = "written"
        /\ out_file.data = payload.data)

\* C22 (as claimed): the saved file is made from the first part that carries
\* inline data, never from a part after it
C22_FirstPartOnly == out_file.status = "written" => out_file.part = 1

\* the files the handling of the response left in the directory of the
\* output path: the file at the output path and a *_fixed.png beside it
FilesLeft(out) ==
    (IF out.status = "written" THEN 1 ELSE 0) + (IF out.fixed_left THEN 1 ELSE 0)

\* C23 (as claimed): a response that made generate return True left exactly
\* one file, a response that did not left none
C23_ExactlyOneFile ==
    /\ out_file.status = "written" => FilesLeft(out_file) = 1
    /\ out_file.status = "dropped" => FilesLeft(out_file) = 0

\* C24 (as claimed): when the file left at the output path fails the
\* signature check, generate returns success, and what it returns differs
\* from what it returns for a file that passes the check
C24_ValidationFailureSurfaced ==
    (out_file.status = "written" /\ ~IsValidImage(out_file.data))
    => (/\ GenerateReturns(out_file) = "true"
        /\ \A b \in ImageBytes :
              IsValidImage(b)
              => GenerateReturns([out_file EXCEPT !.data = b])
                     # GenerateReturns(out_file))

\* C25 (as claimed): the file at the output path holds the bytes first
\* written, or bytes that pass the PNG/JPEG signature check
C25_RepairOnlyWithValidBytes ==
    out_file.status = "written"
    => \/ out_file.data = DataBuffer(SourcePart)
       \/ IsValidImage(out_file.data)


\* C26 (as claimed): the normalized picture is an opaque RGB picture saved as
\* JPEG, and a picture of any mode that carries transparency shows its pixel
\* composited over white with its alpha as the mask
C26_AlphaCompositedOnWhite ==
    normalized # NoImage
    => /\ normalized.mode = "RGB"
       /\ normalized.alpha = Opaque
       /\ normalized.format = "JPEG"
       /\ image.mode \in AlphaModes
          => normalized.colour = Composite(image.colour, image.alpha)


\* C27 (as claimed): a generate call makes at most 3 API round trips and
\* always hands a boolean back to its caller
C27_AlwaysBoolean ==
    /\ g_contacts <= gen_max_retries
    /\ gpc = "ret" => g_result \in {"true", "false"}

\* C27 (amended): a generate call makes at most 3 API round trips; once it
\* has made one, whatever is raised during an attempt is absorbed and the
\* call hands back a boolean, False when the 3rd attempt has failed too
C27_AttemptsAbsorbed ==
    /\ g_contacts <= gen_max_retries
    /\ (gpc = "ret" /\ g_contacts > 0) => g_result \in {"true", "false"}
    /\ (gpc = "ret" /\ g_contacts = gen_max_retries /\ temp_files = {})
       => g_result = "false"

\* C27 witness: three attempts were made, an exception was followed by a
\* backoff twice, and the call returned False
C27_Witness ==
    /\ gpc = "ret"
    /\ g_contacts = gen_max_retries
    /\ waits = gen_max_retries - 1
    /\ g_result = "false"


\* app.py lines 580-583, 833-836, 1073-1076, 1308-1311: the files of the
\* scratch directory the script's lookup accepts after the call (the name
\* starts with the name of the output path and ends with .png, .jpg or
\* .jpeg); generated_files[0] is whichever of them os.listdir lists first
LookupMatches(out) ==
    (IF out.status = "written" /\ out.ext \in LookupExts THEN {"output"} ELSE {})
    \cup (IF out.fixed_left THEN {"fixed"} ELSE {})

\* C28 (as claimed): when generate has returned True for an output path
\* without extension, as the script passes it, the file the script's lookup
\* appends to the history can only be the file generate wrote
C28_HistoryGetsWrittenFile ==
    (out_file.status = "written" /\ SourcePart.ext = "")
    => LookupMatches(out_file) = {"output"}


\* the keys of the usage records of a ledger file
RecordKeys(file) == IF file = << >> THEN {} ELSE DOMAIN file[1].usage_stats

\* C29: in a single session, an increment_generated_count call for the
\* current code (a step that raises recorded[c]) leaves the usage record of
\* every other code hash as it was, adds no key but the hash of the code, and
\* leaves the registry as it was
C29_OtherRecordsUntouched ==
    [][\A c \in Codes :
          recorded'[c] # recorded[c] =>
              /\ c = current_code
              /\ \A h \in RecordKeys(usage_file) \ {get_code_hash(c)} :
                    /\ h \in RecordKeys(usage_file')
                    /\ usage_file'[1].usage_stats[h] = usage_file[1].usage_stats[h]
              /\ RecordKeys(usage_file') = RecordKeys(usage_file) \cup {get_code_hash(c)}
              /\ config_present' = config_present]_vars

\* C29 witness: the ledger holds a record for each of two codes, and the
\* current code has been incremented twice
C29_Witness ==
    /\ current_code = "abc123"
    /\ recorded["abc123"] = 2
    /\ RecordIn(usage_file, "abc123").total_generated = 2
    /\ recorded["xyz789"] = 1
    /\ RecordIn(usage_file, "xyz789").total_generated = 1


\* C30 (as claimed): a read of the ledger in one session that overlaps a
\* write in another session never fails: no session is ever left with a
\* load_usage_stats call that raised
C30_OverlappingReadNeverFails ==
    \A s \in Sessions : s_pc[s] # "read_failed"

====
